---- MODULE Spec2Model ----
(***************************************************************************)
(* Model of trash-conversion (src/src/main.rs): a CSV schedule of waste    *)
(* collection is parsed section by section from one row iterator (year,    *)
(* names, entries, conversions) and expanded by fill_calendar into the     *)
(* events of an iCalendar file.                                            *)
(*                                                                         *)
(* A cell is a sequence of characters, a character a string.  The Polish   *)
(* letters of the source are written "l_stroke", "s_acute", "a_ogonek"     *)
(* and "n_acute".  A row (csv::StringRecord) is a sequence of cells, the   *)
(* input a sequence of rows.                                               *)
(* The csv reader yields records of at least one cell; its own errors      *)
(* (an unreadable file, invalid UTF-8) are not modelled.                   *)
(***************************************************************************)
EXTENDS Integers, Sequences, FiniteSets, TLC

VARIABLES
    input,        \* the records of the csv file, in order
    pos,          \* csv_iter: the number of records consumed so far
    pc,           \* the place main has reached
    status,       \* "running", "ok" (main returned Ok), "failed" (Err or panic)
    failure,      \* the error or panic message of a failed run, "" otherwise
    year,         \* main's year
    names,        \* main's names: HashMap<TrashType, String>
    entries,      \* main's entries: Vec<InputTrashEntry>
    conversions,  \* main's conversions: HashMap<SimpleDate, SimpleDate>
    calendar,     \* fill_calendar's calendar: the events pushed so far
    next_entry,   \* fill_calendar's loop: index of the next entry
    output        \* the output file: NoFile, or the events written to it

vars == <<input, pos, pc, status, failure, year, names, entries, conversions,
          calendar, next_entry, output>>

(***************************************************************************)
(* Result<T, Error>, panics and Option<T>                                  *)
(***************************************************************************)
Ok(v) == [kind |-> "Ok", val |-> v]
Err(m) == [kind |-> "Err", msg |-> m]
Panic(m) == [kind |-> "Panic", msg |-> m]
IsOk(r) == r.kind = "Ok"

None == <<>>
Some(v) == <<v>>
IsSome(o) == o # None
Unwrap(o) == o[1]

EmptyMap == [k \in {} |-> {}]
\* Insert with the value of an existing key kept
InsertKeepFirst(map, k, v) ==
    [x \in DOMAIN map \cup {k} |-> IF x \in DOMAIN map THEN map[x] ELSE v]

\* HashMap::insert: the value of an existing key is replaced
Insert(map, k, v) == [x \in DOMAIN map \cup {k} |-> IF x = k THEN v ELSE map[x]]

(***************************************************************************)
(* str::parse::<u32>, str::parse::<i32> and str::split('/')                *)
(* The cells of the bounded inputs have at most four digits, so the        *)
(* overflow error of the two parsers is out of reach and is not modelled.  *)
(***************************************************************************)
Digits == <<"0", "1", "2", "3", "4", "5", "6", "7", "8", "9">>
IsDigit(c) == \E i \in 1..Len(Digits) : Digits[i] = c
DigitVal(c) == (CHOOSE i \in 1..Len(Digits) : Digits[i] = c) - 1

RECURSIVE ParseDigits(_, _)
\* the value of a digit string after acc, or -1 at the first non-digit
ParseDigits(s, acc) ==
    IF s = <<>> THEN acc
    ELSE IF ~IsDigit(Head(s)) THEN -1
    ELSE ParseDigits(Tail(s), acc * 10 + DigitVal(Head(s)))

ParseU32(s) ==
    LET body == IF s # <<>> /\ Head(s) = "+" THEN Tail(s) ELSE s
    IN  IF body = <<>> \/ ParseDigits(body, 0) < 0
        THEN Err("ParseIntError")
        ELSE Ok(ParseDigits(body, 0))

ParseI32(s) ==
    LET signed == s # <<>> /\ Head(s) \in {"+", "-"}
        body == IF signed THEN Tail(s) ELSE s
    IN  IF body = <<>> \/ ParseDigits(body, 0) < 0
        THEN Err("ParseIntError")
        ELSE IF signed /\ Head(s) = "-"
             THEN Ok(0 - ParseDigits(body, 0))
             ELSE Ok(ParseDigits(body, 0))

RECURSIVE SplitFrom(_, _)
\* the pieces of s between '/' characters, cur being the piece under way
SplitFrom(s, cur) ==
    IF s = <<>> THEN <<cur>>
    ELSE IF Head(s) = "/" THEN <<cur>> \o SplitFrom(Tail(s), <<>>)
    ELSE SplitFrom(Tail(s), Append(cur, Head(s)))

Split(s) == SplitFrom(s, <<>>)

(***************************************************************************)
(* chrono: NaiveDate::from_ymd_opt, weekday, from_weekday_of_month_opt     *)
(* (proleptic Gregorian calendar; the years of the bounded inputs are      *)
(* inside chrono's range of years)                                         *)
(***************************************************************************)
WeekdayOrder == <<"Mon", "Tue", "Wed", "Thu", "Fri", "Sat", "Sun">>
Weekday == {WeekdayOrder[i] : i \in 1..Len(WeekdayOrder)}
\* Weekday::num_days_from_monday
NumDaysFromMonday(w) == (CHOOSE i \in 1..Len(WeekdayOrder) : WeekdayOrder[i] = w) - 1

IsLeap(y) == (y % 4 = 0 /\ y % 100 # 0) \/ y % 400 = 0

DaysInMonth(y, m) ==
    IF m = 2 THEN (IF IsLeap(y) THEN 29 ELSE 28)
    ELSE IF m \in {4, 6, 9, 11} THEN 30
    ELSE 31

from_ymd_opt(y, m, d) ==
    IF m \in 1..12 /\ d >= 1 /\ d <= DaysInMonth(y, m)
    THEN Some([year |-> y, month |-> m, day |-> d])
    ELSE None

RECURSIVE DaysBeforeMonth(_, _)
DaysBeforeMonth(y, m) ==
    IF m = 1 THEN 0 ELSE DaysBeforeMonth(y, m - 1) + DaysInMonth(y, m - 1)

\* days from 0001-01-01, a Monday, to the date
DaysFromCE(date) ==
    LET p == date.year - 1
    IN  365 * p + (p \div 4) - (p \div 100) + (p \div 400)
        + DaysBeforeMonth(date.year, date.month) + (date.day - 1)

\* Datelike::weekday
WeekdayOf(date) == WeekdayOrder[(DaysFromCE(date) % 7) + 1]

from_weekday_of_month_opt(y, m, w, n) ==
    IF n = 0 \/ from_ymd_opt(y, m, 1) = None THEN None
    ELSE LET first == WeekdayOf(Unwrap(from_ymd_opt(y, m, 1)))
             first_to_dow == (7 + NumDaysFromMonday(w) - NumDaysFromMonday(first)) % 7
         IN  from_ymd_opt(y, m, (n - 1) * 7 + first_to_dow + 1)

(***************************************************************************)
(* polish_name_to_weekday and TrashType::from_index                        *)
(***************************************************************************)
\* the tokens of polish_name_to_weekday, by weekday
WeekdayNames ==
    [w \in Weekday |->
        CASE w = "Mon" -> {<<"p", "o", "n", "i", "e", "d", "z", "i", "a", "l_stroke", "e", "k">>,
                            <<"p", "o", "n">>,
                            <<"p", "o", "n", "i", "e", "d", "z", "i", "a", "l", "e", "k">>}
          [] w = "Tue" -> {<<"w", "t", "o", "r", "e", "k">>,
                            <<"w", "t", "o">>}
          [] w = "Wed" -> {<<"s_acute", "r", "o", "d", "a">>,
                            <<"s_acute", "r", "o">>,
                            <<"s", "r", "o">>}
          [] w = "Thu" -> {<<"c", "z", "w", "a", "r", "t", "e", "k">>,
                            <<"c", "z">>,
                            <<"c", "z", "w">>}
          [] w = "Fri" -> {<<"p", "i", "a_ogonek", "t", "e", "k">>,
                            <<"p", "i", "a_ogonek">>,
                            <<"p", "i", "a">>,
                            <<"p", "t">>}
          [] w = "Sat" -> {<<"s", "o", "b", "o", "t", "a">>,
                            <<"s", "o", "b">>}
          [] w = "Sun" -> {<<"n", "i", "e", "d", "z", "i", "e", "l", "a">>,
                            <<"n", "i", "e", "d", "z">>,
                            <<"n", "i", "e">>}]

polish_name_to_weekday(name) ==
    IF \E w \in Weekday : name \in WeekdayNames[w]
    THEN Ok(CHOOSE w \in Weekday : name \in WeekdayNames[w])
    ELSE Err("Couldn't parse weekday")

TrashTypes == <<"Mixed", "Metal", "Paper", "Glass", "Bio", "Big", "ChristmasTree">>
TrashType == {TrashTypes[i] : i \in 1..Len(TrashTypes)}

\* from_index with a value for every index
from_index_unchecked(num) ==
    IF num < Len(TrashTypes) THEN Ok(TrashTypes[num + 1]) ELSE Ok("Unknown")

\* TrashType::from_index
from_index(num) ==
    IF num < Len(TrashTypes) THEN Ok(TrashTypes[num + 1]) ELSE Err("Shouldn't happen")

\* enum InputTrashDate
Day(d) == [tag |-> "Day", day |-> d]
Weekdays(w) == [tag |-> "Weekdays", weekday |-> w]

\* struct SimpleDate
SimpleDate(m, d) == [month |-> m, day |-> d]

(***************************************************************************)
(* The row loops of the parsers, one record at a time                      *)
(***************************************************************************)
RECURSIVE HeaderLoopPositional(_, _, _)
\* HeaderLoop with an empty cell taking the next category as well
HeaderLoopPositional(cells, encountered, acc) ==
    IF cells = <<>> THEN Ok(acc)
    ELSE IF Head(cells) = <<>>
         THEN HeaderLoopPositional(Tail(cells), encountered + 1, acc)
    ELSE LET ty == from_index(encountered)
         IN  IF ~IsOk(ty) THEN ty
             ELSE HeaderLoopPositional(Tail(cells), encountered + 1,
                                       Insert(acc, ty.val, Head(cells)))

RECURSIVE HeaderLoop(_, _, _)
\* parse_trash_names: the loop over the cells after the first one
HeaderLoop(cells, encountered, acc) ==
    IF cells = <<>> THEN Ok(acc)
    ELSE IF Head(cells) = <<>> THEN HeaderLoop(Tail(cells), encountered, acc)
    ELSE LET ty == from_index(encountered)
         IN  IF ~IsOk(ty) THEN ty
             ELSE HeaderLoop(Tail(cells), encountered + 1,
                             Insert(acc, ty.val, Head(cells)))

\* parse_trash_entries: a cell as a day of the month, else as a weekday
ParseDay(entry) ==
    IF IsOk(ParseU32(entry)) THEN Ok(Day(ParseU32(entry).val))
    ELSE IF IsOk(polish_name_to_weekday(entry))
         THEN Ok(Weekdays(polish_name_to_weekday(entry).val))
         ELSE polish_name_to_weekday(entry)

\* CategoryOf with one category per cell instead of one per three cells
CategoryOfCell(i) == i

\* parse_trash_entries: the category of the cell at position i
CategoryOf(i) == i \div 3

RECURSIVE EntryLoopStrict(_, _, _, _)
\* EntryLoop with a cell that is neither a day nor a weekday returned as an error
EntryLoopStrict(cells, i, month_number, acc) ==
    IF cells = <<>> THEN Ok(acc)
    ELSE LET ty == from_index(CategoryOf(i))
             day == ParseDay(Head(cells))
         IN  IF ~IsOk(ty) THEN ty
             ELSE IF ~IsOk(day) THEN day
                  ELSE EntryLoopStrict(Tail(cells), i + 1, month_number,
                                       Append(acc, [month_number |-> month_number,
                                                    day |-> day.val, ty |-> ty.val]))

RECURSIVE EntryLoop(_, _, _, _)
\* parse_trash_entries: the loop over the cells after the month cell
EntryLoop(cells, i, month_number, acc) ==
    IF cells = <<>> THEN Ok(acc)
    ELSE LET ty == from_index(CategoryOf(i))
             day == ParseDay(Head(cells))
         IN  IF ~IsOk(ty) THEN ty
             ELSE IF ~IsOk(day)
                  THEN EntryLoop(Tail(cells), i + 1, month_number, acc)
                  ELSE EntryLoop(Tail(cells), i + 1, month_number,
                                 Append(acc, [month_number |-> month_number,
                                              day |-> day.val, ty |-> ty.val]))

\* parse_conversions: the row that ends the scan for the marker
MarkerFirst == <<"d", "z", "i", "e", "n_acute">>
MarkerSecond == <<"z", "a">>
\* IsMarker with the first cell alone compared
IsMarkerFirstOnly(record) == record[1] = MarkerFirst
IsMarker(record) == record[1] = MarkerFirst /\ record[2] = MarkerSecond

\* ParseSimpleDate with the first part read as the month
ParseSimpleDateMonthFirst(parts) ==
    IF Len(parts) < 2 THEN Panic("index out of bounds")
    ELSE IF ~IsOk(ParseU32(parts[1])) THEN ParseU32(parts[1])
    ELSE IF ~IsOk(ParseU32(parts[2])) THEN ParseU32(parts[2])
    ELSE Ok(SimpleDate(ParseU32(parts[1]).val, ParseU32(parts[2]).val))

\* parse_conversions: the two ends of a "day/month" cell as a SimpleDate
ParseSimpleDate(parts) ==
    IF Len(parts) < 2 THEN Panic("index out of bounds")
    ELSE IF ~IsOk(ParseU32(parts[2])) THEN ParseU32(parts[2])
    ELSE IF ~IsOk(ParseU32(parts[1])) THEN ParseU32(parts[1])
    ELSE Ok(SimpleDate(ParseU32(parts[2]).val, ParseU32(parts[1]).val))

\* ConversionOf with a target that is no date of the year returned as an error
ConversionOfValidated(record) ==
    LET from == ParseSimpleDate(Split(record[1]))
        to == ParseSimpleDate(Split(record[2]))
    IN  IF ~IsOk(from) THEN from
        ELSE IF ~IsOk(to) THEN to
        ELSE IF ~IsSome(from_ymd_opt(year, to.val.month, to.val.day))
             THEN Err("invalid date")
        ELSE Ok([from |-> from.val, to |-> to.val])

\* parse_conversions: the entry a row of the conversions section inserts
ConversionOf(record) ==
    LET from == ParseSimpleDate(Split(record[1]))
        to == ParseSimpleDate(Split(record[2]))
    IN  IF ~IsOk(from) THEN from
        ELSE IF ~IsOk(to) THEN to
        ELSE Ok([from |-> from.val, to |-> to.val])

(***************************************************************************)
(* fill_calendar, one entry at a time                                      *)
(***************************************************************************)
\* WeekdayDates with the occurrences taken from the last to the first
WeekdayDatesDescending(y, month_number, weekday) ==
    LET opt(n) == from_weekday_of_month_opt(y, month_number, weekday, n)
        keep == SelectSeq(<<5, 4, 3, 2, 1>>, LAMBDA n : IsSome(opt(n)))
    IN  [k \in 1..Len(keep) |-> Unwrap(opt(keep[k]))]

\* the occurrences n = 1..5 of the weekday in the month that exist
WeekdayDates(y, month_number, weekday) ==
    LET opt(n) == from_weekday_of_month_opt(y, month_number, weekday, n)
        keep == SelectSeq(<<1, 2, 3, 4, 5>>, LAMBDA n : IsSome(opt(n)))
    IN  [k \in 1..Len(keep) |-> Unwrap(opt(keep[k]))]

\* ExpandEntry with a Day rule of an invalid date skipped instead of a panic
ExpandEntrySkipInvalid(entry, y) ==
    IF entry.day.tag = "Day"
    THEN IF IsSome(from_ymd_opt(y, entry.month_number, entry.day.day))
         THEN Ok(<<Unwrap(from_ymd_opt(y, entry.month_number, entry.day.day))>>)
         ELSE Ok(<<>>)
    ELSE Ok(WeekdayDates(y, entry.month_number, entry.day.weekday))

\* the dates fill_calendar hands to process_date for one entry
ExpandEntry(entry, y) ==
    IF entry.day.tag = "Day"
    THEN IF IsSome(from_ymd_opt(y, entry.month_number, entry.day.day))
         THEN Ok(<<Unwrap(from_ymd_opt(y, entry.month_number, entry.day.day))>>)
         ELSE Panic("Got invalid date")
    ELSE Ok(WeekdayDates(y, entry.month_number, entry.day.weekday))

\* ConvertedDate with the converted date looked up once more
ConvertedDateChained(convs, simple_date) ==
    IF simple_date \notin DOMAIN convs THEN simple_date
    ELSE IF convs[simple_date] \in DOMAIN convs THEN convs[convs[simple_date]]
    ELSE convs[simple_date]

\* conversions.get(&simple_date).unwrap_or(&simple_date)
ConvertedDate(convs, simple_date) ==
    IF simple_date \in DOMAIN convs THEN convs[simple_date] ELSE simple_date

\* process_date with the description of a moved event left empty
process_date_moved_blank(date, entry, convs, y, nms) ==
    LET converted_date == ConvertedDate(convs, SimpleDate(date.month, date.day))
        new_date == from_ymd_opt(y, converted_date.month, converted_date.day)
    IN  IF ~IsSome(new_date)
        THEN Panic("Shouldn't happen if your conversions are okay")
        ELSE IF entry.ty \notin DOMAIN nms THEN Panic("No trash type name")
        ELSE Ok([date |-> Unwrap(new_date), summary |-> nms[entry.ty],
                 description |-> IF converted_date = SimpleDate(date.month, date.day)
                                 THEN nms[entry.ty] ELSE <<>>])

\* the closure process_date: the event of one date, or the panic
process_date(date, entry, convs, y, nms) ==
    LET converted_date == ConvertedDate(convs, SimpleDate(date.month, date.day))
        new_date == from_ymd_opt(y, converted_date.month, converted_date.day)
    IN  IF ~IsSome(new_date)
        THEN Panic("Shouldn't happen if your conversions are okay")
        ELSE IF entry.ty \notin DOMAIN nms THEN Panic("No trash type name")
        ELSE Ok([date |-> Unwrap(new_date), summary |-> nms[entry.ty],
                 description |-> nms[entry.ty]])

\* Push with an event that is already in the calendar left out
PushDedup(cal, event) ==
    IF \E j \in 1..Len(cal) : cal[j] = event THEN cal ELSE Append(cal, event)

\* Calendar::push
Push(cal, event) == Append(cal, event)

RECURSIVE ForEach(_, _, _, _, _, _)
\* the dates of one entry through process_date, in order, up to a panic
ForEach(dates, entry, convs, y, nms, cal) ==
    IF dates = <<>> THEN [calendar |-> cal, res |-> Ok(cal)]
    ELSE LET ev == process_date(Head(dates), entry, convs, y, nms)
         IN  IF ~IsOk(ev) THEN [calendar |-> cal, res |-> ev]
             ELSE ForEach(Tail(dates), entry, convs, y, nms, Push(cal, ev.val))

(***************************************************************************)
(* The inputs: bounded families of csv files                               *)
(***************************************************************************)
MaxEntryRows == 2
MaxGapRows == 1
MaxOverrideRows == 2

SeqsUpTo(S, n) == UNION {[1..k -> S] : k \in 0..n}

Label == <<"r", "o", "k">>
Junk == <<"x", "y", "z">>
Empty == <<>>
Mixed == <<"M", "i", "x", "e", "d">>
Metal == <<"M", "e", "t", "a", "l">>
Pon == <<"p", "o", "n">>
D15 == <<"1", "5">>
D31 == <<"3", "1">>
D0 == <<"0">>
M4 == <<"4">>
M13 == <<"1", "3">>
S15_4 == <<"1", "5", "/", "4">>
S16_4 == <<"1", "6", "/", "4">>
S30_4 == <<"3", "0", "/", "4">>
S31_4 == <<"3", "1", "/", "4">>
S1_5 == <<"1", "/", "5">>
D12 == <<"1", "2">>
D4 == <<"4">>
M12 == <<"1", "2">>
S12_4 == <<"1", "2", "/", "4">>
S4_12 == <<"4", "/", "1", "2">>
S13_4 == <<"1", "3", "/", "4">>

Year2024 == <<Label, <<"2", "0", "2", "4">>>>
Year2023 == <<Label, <<"2", "0", "2", "3">>>>
GoodYearRows == {Year2024, Year2023}
YearRows == GoodYearRows \cup {<<Label, Junk>>, <<Label>>}

TwoNames == <<Label, Mixed, Metal>>
NameRows == {TwoNames, <<Label, Empty, Mixed>>, <<Label>>}
\* a names row with one name more than there are trash types
LongNames == <<Label>> \o [i \in 1..(Len(TrashTypes) + 1) |-> Mixed]

\* a names row with empty cells before and between its two names
GappedNames == <<Label, Empty, Mixed, Empty, Metal>>

\* an entries row with a cell at the first position past the last category
LongRow == <<M4, D15>> \o [i \in 1..(3 * Len(TrashTypes)) |-> Empty]
\* the same with a day in that cell
LongRowDay == <<M4>> \o [i \in 1..(3 * Len(TrashTypes)) |-> Empty] \o <<D15>>

EntryRows ==
    { <<M4, D15>>, <<M4, Pon>>, <<M4, D31>>, <<M4, D0>>, <<M13, Pon>>, <<M13, D15>>,
      <<M4, Junk, D15>>, <<M4, Empty, Pon>>, <<M4, Empty, Empty, Empty, Pon>>,
      <<Junk, D15>>, LongRow }

Terminator == <<Empty>>
Marker == <<MarkerFirst, MarkerSecond>>
GapRows == {<<Junk, Junk>>, <<Junk>>, <<MarkerFirst, Junk>>}

OverrideRows ==
    { <<S15_4, S30_4>>, <<S15_4, S16_4>>, <<S30_4, S1_5>>, <<S15_4, S31_4>>,
      <<S15_4, Empty>>, <<S15_4>>, <<D15, S30_4>>, <<<<"x", "/", "4">>, S30_4>>,
      <<Empty, S30_4>>, <<S30_4, S31_4>> }

\* the first rows vary, at most one entries row follows
HeadInputs ==
    {<<>>} \cup {<<y>> : y \in YearRows}
    \cup {<<y, n>> \o es : y \in YearRows, n \in NameRows \cup {LongNames, GappedNames},
                           es \in {<<>>, <<<<M4, D15>>>>, <<LongRowDay>>}}

\* the entries section varies
EntryInputs ==
    {<<y, n>> \o es \o tail :
        y \in GoodYearRows, n \in NameRows, es \in SeqsUpTo(EntryRows, MaxEntryRows),
        tail \in {<<>>, <<Terminator, Marker, <<S15_4, S30_4>>>>}}

\* the rows between the entries and the marker vary, and the marker
GapInputs ==
    {<<Year2024, TwoNames, <<M4, D15>>, Terminator>> \o gs \o ms \o <<<<S15_4, S30_4>>>> :
        gs \in SeqsUpTo(GapRows, MaxGapRows), ms \in {<<>>, <<Marker>>}}

\* the conversions section varies
OverrideInputs ==
    {<<Year2024, TwoNames>> \o es \o <<Terminator, Marker>> \o os :
        es \in {<<<<M4, D15>>>>, <<<<M4, Pon>>>>, <<<<M4, D15>>, <<M4, Pon>>>>},
        os \in SeqsUpTo(OverrideRows, MaxOverrideRows)}

\* rules on 12 April and on 4 December with one override whose source is one
\* of the two
SwapInputs ==
    {<<Year2024, TwoNames, <<M4, D12>>, <<M12, D4>>, Terminator, Marker, o>> :
        o \in {<<S12_4, S13_4>>, <<S4_12, S1_5>>}}

Inputs == HeadInputs \cup EntryInputs \cup GapInputs \cup OverrideInputs \cup SwapInputs

(***************************************************************************)
(* main                                                                    *)
(***************************************************************************)
Init ==
    /\ input \in Inputs
    /\ pos = 0
    /\ pc = "parse_year"
    /\ status = "running"
    /\ failure = ""
    /\ year = 0
    /\ names = EmptyMap
    /\ entries = <<>>
    /\ conversions = EmptyMap
    /\ calendar = <<>>
    /\ next_entry = 1
    /\ output = None

\* csv_iter.next()
HasNext == pos < Len(input)
NextRecord == input[pos + 1]
\* Advance with the row that ends the entries section looked at but not consumed
AdvancePeekTerminator ==
    pos' = IF HasNext /\ ~(pc = "parse_trash_entries" /\ NextRecord # <<>>
                           /\ NextRecord[1] = <<>>)
           THEN pos + 1 ELSE pos
Advance == pos' = IF HasNext THEN pos + 1 ELSE pos

\* an Err returned through `?` up to main, or a panic
Fail(r) == status' = "failed" /\ failure' = r.msg

Break == [kind |-> "Break"]

YearOf(record) ==
    IF Len(record) < 2 THEN Panic("index out of bounds") ELSE ParseI32(record[2])

parse_year ==
    /\ status = "running" /\ pc = "parse_year"
    /\ Advance
    /\ LET r == IF HasNext THEN YearOf(NextRecord) ELSE Panic("Empty csv")
       IN  IF IsOk(r)
           THEN year' = r.val /\ pc' = "parse_trash_names" /\ UNCHANGED <<status, failure>>
           ELSE Fail(r) /\ UNCHANGED <<year, pc>>
    /\ UNCHANGED <<input, names, entries, conversions, calendar, next_entry, output>>

NamesOf(record) ==
    IF record = <<>> THEN Panic("No headers") ELSE HeaderLoop(Tail(record), 0, EmptyMap)

parse_trash_names ==
    /\ status = "running" /\ pc = "parse_trash_names"
    /\ Advance
    /\ LET r == IF HasNext THEN NamesOf(NextRecord) ELSE Panic("Empty csv")
       IN  IF IsOk(r)
           THEN names' = r.val /\ pc' = "parse_trash_entries" /\ UNCHANGED <<status, failure>>
           ELSE Fail(r) /\ UNCHANGED <<names, pc>>
    /\ UNCHANGED <<input, year, entries, conversions, calendar, next_entry, output>>

\* one record of the entries loop: the entries it adds, a break or an error
EntriesOf(record) ==
    IF record = <<>> THEN Panic("Empty row?")
    ELSE IF Head(record) = <<>> THEN Break
    ELSE IF ~IsOk(ParseU32(Head(record))) THEN ParseU32(Head(record))
    ELSE EntryLoop(Tail(record), 0, ParseU32(Head(record)).val, <<>>)

\* one turn of the loop of parse_trash_entries
parse_trash_entries ==
    /\ status = "running" /\ pc = "parse_trash_entries"
    /\ Advance
    /\ LET r == IF HasNext THEN EntriesOf(NextRecord) ELSE Break
       IN  IF IsOk(r)
           THEN entries' = entries \o r.val /\ UNCHANGED <<pc, status, failure>>
           ELSE IF r = Break
           THEN pc' = "parse_conversions_marker" /\ UNCHANGED <<entries, status, failure>>
           ELSE Fail(r) /\ UNCHANGED <<entries, pc>>
    /\ UNCHANGED <<input, year, names, conversions, calendar, next_entry, output>>

\* one record of the first loop of parse_conversions
MarkerOf(record) ==
    IF record = <<>> THEN Panic("Empty row?")
    ELSE IF Len(record) < 2 THEN Panic("Weird row")
    ELSE IF IsMarker(record) THEN Break
    ELSE Ok(record)

\* parse_conversions_marker with the end of the rows before a marker a panic
parse_conversions_marker_required ==
    /\ status = "running" /\ pc = "parse_conversions_marker"
    /\ Advance
    /\ LET r == IF HasNext THEN MarkerOf(NextRecord) ELSE Panic("No marker")
       IN  IF IsOk(r) THEN UNCHANGED <<pc, status, failure>>
           ELSE IF r = Break
           THEN pc' = "parse_conversions" /\ UNCHANGED <<status, failure>>
           ELSE Fail(r) /\ UNCHANGED pc
    /\ UNCHANGED <<input, year, names, entries, conversions, calendar, next_entry, output>>

\* one turn of the first loop of parse_conversions
parse_conversions_marker ==
    /\ status = "running" /\ pc = "parse_conversions_marker"
    /\ Advance
    /\ LET r == IF HasNext THEN MarkerOf(NextRecord) ELSE Break
       IN  IF IsOk(r) THEN UNCHANGED <<pc, status, failure>>
           ELSE IF r = Break
           THEN pc' = "parse_conversions" /\ UNCHANGED <<status, failure>>
           ELSE Fail(r) /\ UNCHANGED pc
    /\ UNCHANGED <<input, year, names, entries, conversions, calendar, next_entry, output>>

\* ReplacementOf with a missing second date returned as an error
ReplacementOfStrict(record) ==
    IF record = <<>> \/ record[1] = <<>> THEN Break
    ELSE IF Len(record) < 2 THEN Panic("index out of bounds")
    ELSE IF record[2] = <<>> THEN Err("Bad replacement formatting, second date missing")
    ELSE ConversionOf(record)

\* one record of the second loop of parse_conversions
ReplacementOf(record) ==
    IF record = <<>> \/ record[1] = <<>> THEN Break
    ELSE IF Len(record) < 2 THEN Panic("index out of bounds")
    ELSE IF record[2] = <<>> THEN Break
    ELSE ConversionOf(record)

\* one turn of the second loop of parse_conversions
parse_conversions ==
    /\ status = "running" /\ pc = "parse_conversions"
    /\ Advance
    /\ LET r == IF HasNext THEN ReplacementOf(NextRecord) ELSE Break
       IN  IF IsOk(r)
           THEN /\ conversions' = Insert(conversions, r.val.from, r.val.to)
                /\ UNCHANGED <<pc, status, failure>>
           ELSE IF r = Break
           THEN pc' = "fill_calendar" /\ UNCHANGED <<conversions, status, failure>>
           ELSE Fail(r) /\ UNCHANGED <<conversions, pc>>
    /\ UNCHANGED <<input, year, names, entries, calendar, next_entry, output>>

\* one entry of fill_calendar: the calendar after it and Ok, or the panic
FillEntry(entry, convs, y, nms, cal) ==
    LET dates == ExpandEntry(entry, y)
    IN  IF IsOk(dates) THEN ForEach(dates.val, entry, convs, y, nms, cal)
        ELSE [calendar |-> cal, res |-> dates]

\* one turn of the loop of fill_calendar, or its return after the last entry
fill_calendar ==
    /\ status = "running" /\ pc = "fill_calendar"
    /\ IF next_entry > Len(entries)
       THEN pc' = "write_output" /\ UNCHANGED <<calendar, next_entry, status, failure>>
       ELSE LET r == FillEntry(entries[next_entry], conversions, year, names, calendar)
            IN  /\ calendar' = r.calendar
                /\ IF IsOk(r.res)
                   THEN next_entry' = next_entry + 1 /\ UNCHANGED <<status, failure>>
                   ELSE Fail(r.res) /\ UNCHANGED next_entry
                /\ UNCHANGED pc
    /\ UNCHANGED <<input, pos, year, names, entries, conversions, output>>

\* write_output with the file written while fill_calendar is still at work
write_output_early ==
    /\ status = "running" /\ pc \in {"fill_calendar", "write_output"}
    /\ output' = Some(calendar)
    /\ IF pc = "write_output"
       THEN status' = "ok" /\ pc' = "exit"
       ELSE output = None /\ UNCHANGED <<status, pc>>
    /\ UNCHANGED <<input, pos, failure, year, names, entries, conversions, calendar,
                   next_entry>>

\* main after fill_calendar: File::create, write_all, flush; the file system
\* either lets the file be created and written or refuses to create it
write_output ==
    /\ status = "running" /\ pc = "write_output"
    /\ \E created \in BOOLEAN :
          IF created
          THEN output' = Some(calendar) /\ status' = "ok" /\ UNCHANGED failure
          ELSE Fail(Err("io::Error")) /\ UNCHANGED output
    /\ pc' = "exit"
    /\ UNCHANGED <<input, pos, year, names, entries, conversions, calendar, next_entry>>

Next ==
    \/ parse_year
    \/ parse_trash_names
    \/ parse_trash_entries
    \/ parse_conversions_marker
    \/ parse_conversions
    \/ fill_calendar
    \/ write_output

Spec == Init /\ [][Next]_vars

(***************************************************************************)
(* Properties.  The definitions below state what is expected of the run    *)
(* in terms of the input and of the calendar, apart from the operators     *)
(* that model the code.                                                    *)
(***************************************************************************)
\* fill_calendar has been entered and nothing has failed so far
FillReached == status # "failed" /\ pc \in {"fill_calendar", "write_output", "exit"}

\* the lengths of the months of year y
MonthLengths(y) ==
    <<31, IF (y % 4 = 0 /\ y % 100 # 0) \/ y % 400 = 0 THEN 29 ELSE 28,
      31, 30, 31, 30, 31, 31, 30, 31, 30, 31>>

ValidDate(y, m, d) == m \in 1..12 /\ d \in 1..MonthLengths(y)[m]

\* the number of days of month m of year y that fall on weekday w
Occurrences(y, m, w) ==
    IF m \notin 1..12 THEN 0
    ELSE Cardinality({d \in 1..MonthLengths(y)[m] :
                        WeekdayOf([year |-> y, month |-> m, day |-> d]) = w})

\* dates of one year in calendar order
DateLeq(a, b) == a.month < b.month \/ (a.month = b.month /\ a.day <= b.day)
DateLess(a, b) == a.month < b.month \/ (a.month = b.month /\ a.day < b.day)

\* one lookup of a date in the override table
LookupOnce(date) ==
    LET key == [month |-> date.month, day |-> date.day]
    IN  IF key \in DOMAIN conversions THEN conversions[key] ELSE key

\* the dates entry i expands to, before the override table is applied
Expanded(i) ==
    IF IsOk(ExpandEntry(entries[i], year)) THEN ExpandEntry(entries[i], year).val ELSE <<>>

RECURSIVE ExpandedUpTo(_)
\* the dates entries 1..n expand to, in order
ExpandedUpTo(n) == IF n = 0 THEN <<>> ELSE ExpandedUpTo(n - 1) \o Expanded(n)

\* the events of entry i in a calendar that holds the events of entries 1..i
EventsOf(i) ==
    SubSeq(calendar, Len(ExpandedUpTo(i - 1)) + 1, Len(ExpandedUpTo(i)))

\* C1: every emitted event is dated by one lookup of its expanded date in the
\* override table: the mapped date when the expanded date is a key, the expanded
\* date itself otherwise, and the result is not looked up again.
C1_SingleLookup ==
    FillReached =>
        LET ex == ExpandedUpTo(next_entry - 1)
        IN  /\ Len(calendar) = Len(ex)
            /\ \A j \in 1..Len(ex) :
                  calendar[j].date = [year |-> year, month |-> LookupOnce(ex[j]).month,
                                      day |-> LookupOnce(ex[j]).day]

\* a rule expanded to A with overrides A -> B and B -> C, and its event is on B
C1_Witness ==
    /\ FillReached
    /\ \E j \in 1..Len(calendar) :
          LET a == [month |-> ExpandedUpTo(next_entry - 1)[j].month,
                    day |-> ExpandedUpTo(next_entry - 1)[j].day]
          IN  /\ a \in DOMAIN conversions
              /\ conversions[a] \in DOMAIN conversions
              /\ conversions[conversions[a]] # conversions[a]
              /\ calendar[j].date.month = conversions[a].month
              /\ calendar[j].date.day = conversions[a].day

\* C2: every Weekdays rule the parser produced expands to as many dates as its
\* weekday has occurrences in its month of the year, 4 or 5, all in that month.
C2_WeekdayCount ==
    \A i \in 1..Len(entries) :
        entries[i].day.tag = "Weekdays" =>
            LET ds == WeekdayDates(year, entries[i].month_number, entries[i].day.weekday)
            IN  /\ Len(ds) \in {4, 5}
                /\ Len(ds) = Occurrences(year, entries[i].month_number,
                                         entries[i].day.weekday)
                /\ \A k \in 1..Len(ds) :
                      /\ ds[k].year = year
                      /\ ds[k].month = entries[i].month_number
                      /\ ValidDate(year, ds[k].month, ds[k].day)

\* C3: a Day rule of a valid date expands to exactly that date; fill_calendar
\* reaching a Day rule of an invalid date fails the run and nothing is written.
C3_LiteralDay ==
    [][(status = "running" /\ pc = "fill_calendar" /\ next_entry <= Len(entries)
        /\ entries[next_entry].day.tag = "Day") =>
          LET e == entries[next_entry]
          IN  IF ValidDate(year, e.month_number, e.day.day)
              THEN ExpandEntry(e, year) =
                     Ok(<<[year |-> year, month |-> e.month_number, day |-> e.day.day]>>)
              ELSE /\ status' = "failed"
                   /\ failure' = "Got invalid date"
                   /\ next_entry' = next_entry
                   /\ output' = None]_vars

\* a valid Day rule gave its event, the next Day rule is invalid and failed the run
C3_Witness ==
    /\ status = "failed" /\ failure = "Got invalid date"
    /\ next_entry = 2
    /\ entries[1].day.tag = "Day" /\ Len(calendar) = 1
    /\ entries[2].day.tag = "Day"
    /\ ~ValidDate(year, entries[2].month_number, entries[2].day.day)

\* C4: the output is written only by a run that went through every stage and
\* all of fill_calendar without an error, and a failed run leaves no output.
C4_NoPartialOutput ==
    /\ output # None =>
          /\ status = "ok" /\ pc = "exit"
          /\ next_entry = Len(entries) + 1
          /\ output = Some(calendar)
    /\ status = "failed" => output = None

\* fill_calendar failed at a rule after earlier rules gave events: no output
C4_Witness ==
    /\ status = "failed" /\ pc = "fill_calendar"
    /\ next_entry > 1 /\ calendar # <<>>
    /\ output = None

\* a row of the conversions section with a first cell and an empty second cell
MissingTarget(record) == Len(record) >= 2 /\ record[1] # <<>> /\ record[2] = <<>>

C6_NamedOrFatal ==
    status = "ok" => \A i \in 1..Len(entries) : entries[i].ty \in DOMAIN names

\* the cells that parse_trash_entries turns into a rule
Parseable(cell) ==
    IsOk(ParseU32(cell)) \/ \E w \in Weekday : cell \in WeekdayNames[w]

\* the number of cell positions that have a category
Positions == 3 * Len(TrashTypes)

\* the rules of an entries row: one per parseable cell at a position with a
\* category, in cell order, the category being the position divided by three
RulesOf(record) ==
    LET cells == Tail(record)
        idx == SelectSeq([i \in 1..Len(cells) |-> i],
                         LAMBDA i : i <= Positions /\ Parseable(cells[i]))
    IN  [k \in 1..Len(idx) |->
            [month_number |-> ParseU32(record[1]).val,
             day |-> IF IsOk(ParseU32(cells[idx[k]]))
                     THEN [tag |-> "Day", day |-> ParseU32(cells[idx[k]]).val]
                     ELSE [tag |-> "Weekdays",
                           weekday |-> CHOOSE w \in Weekday : cells[idx[k]] \in WeekdayNames[w]],
             ty |-> TrashTypes[((idx[k] - 1) \div 3) + 1]]]

\* parse_trash_entries is about to read an entries row with a month
AtEntriesRow ==
    /\ status = "running" /\ pc = "parse_trash_entries" /\ pos < Len(input)
    /\ input[pos + 1] # <<>> /\ IsOk(ParseU32(input[pos + 1][1]))

\* C7 as claimed: at every cell position a cell that is neither a day nor a
\* weekday is skipped: the row gives the rules of its other cells and the run
\* goes on with the next row.
C7_UnparseableRecoverable ==
    [][(AtEntriesRow
        /\ \A i \in 1..Len(Tail(input[pos + 1])) :
              i > Positions => ~Parseable(Tail(input[pos + 1])[i])) =>
          /\ status' = "running" /\ pc' = pc
          /\ entries' = entries \o RulesOf(input[pos + 1])]_vars

\* C7 as amended: the same at the cell positions 0..20, those of the seven
\* categories; a row with a cell at position 21 or later, of whatever content,
\* makes parse_trash_entries return the error of TrashType::from_index.
C7_UnparseableRecoverableInRange ==
    [][AtEntriesRow =>
          IF Len(Tail(input[pos + 1])) <= Positions
          THEN /\ status' = "running" /\ pc' = pc
               /\ entries' = entries \o RulesOf(input[pos + 1])
          ELSE status' = "failed" /\ failure' = "Shouldn't happen"]_vars

\* a row with an unknown cell before a day cell gave the rule of the day cell,
\* and the row after it gave its rules too
C7_Witness ==
    /\ status = "running" /\ pc = "parse_trash_entries" /\ pos = 4
    /\ Len(input[3]) >= 3
    /\ input[3][2] # <<>> /\ ~Parseable(input[3][2]) /\ Parseable(input[3][3])
    /\ RulesOf(input[4]) # <<>>
    /\ entries = RulesOf(input[3]) \o RulesOf(input[4])

Min(S) == CHOOSE x \in S : \A z \in S : x <= z
Max(S) == CHOOSE x \in S : \A z \in S : x >= z

\* the rows of the input that end the entries section
Terminators == {j \in 3..Len(input) : input[j] # <<>> /\ input[j][1] = <<>>}
\* the index of the row that ends the entries section, past the input if none
EntriesEnd == IF Terminators = {} THEN Len(input) + 1 ELSE Min(Terminators)

RECURSIVE RulesUpTo(_)
\* the rules of the rows 3..j of the input, in row order
RulesUpTo(j) == IF j < 3 THEN <<>> ELSE RulesUpTo(j - 1) \o RulesOf(input[j])

\* the events of entry i: one per expanded date, in the order of the expansion
RuleEvents(i) ==
    [k \in 1..Len(Expanded(i)) |->
        [date |-> [year |-> year, month |-> LookupOnce(Expanded(i)[k]).month,
                   day |-> LookupOnce(Expanded(i)[k]).day],
         summary |-> names[entries[i].ty],
         description |-> names[entries[i].ty]]]

RECURSIVE EventsUpTo(_)
EventsUpTo(n) == IF n = 0 THEN <<>> ELSE EventsUpTo(n - 1) \o RuleEvents(n)

RECURSIVE ExpandedCount(_)
ExpandedCount(n) == IF n = 0 THEN 0 ELSE ExpandedCount(n - 1) + Len(Expanded(n))

\* C8: in a run that ends well the rules are those of the entries rows in row
\* order and cell order, and the written events are the events of the rules one
\* rule after the other, as many as the rules have expanded dates: none is
\* left out as a duplicate.
C8_ConcatenationNoDedup ==
    status = "ok" =>
        /\ entries = RulesUpTo(EntriesEnd - 1)
        /\ Unwrap(output) = EventsUpTo(Len(entries))
        /\ Len(Unwrap(output)) = ExpandedCount(Len(entries))

\* two rules gave the same event and the output holds it twice
C8_Witness ==
    /\ status = "ok"
    /\ \E a, b \in 1..Len(entries) :
          /\ a < b
          /\ \E k \in 1..Len(EventsOf(a)) : \E l \in 1..Len(EventsOf(b)) :
                EventsOf(a)[k] = EventsOf(b)[l]
          /\ Len(Unwrap(output)) = Len(ExpandedUpTo(Len(entries)))

\* entry i is a Weekdays rule
IsWeekdays(i) == entries[i].day.tag = "Weekdays"

\* C9 as claimed: the events of a Weekdays rule are in ascending date order,
\* whatever the override table.
C9_AscendingAlways ==
    status = "ok" =>
        \A i \in 1..Len(entries) :
            IsWeekdays(i) =>
                \A k \in 1..(Len(EventsOf(i)) - 1) :
                    DateLeq(EventsOf(i)[k].date, EventsOf(i)[k + 1].date)

\* no expanded date of entry i is a key of the override table
NotRemapped(i) ==
    \A k \in 1..Len(Expanded(i)) :
        [month |-> Expanded(i)[k].month, day |-> Expanded(i)[k].day]
            \notin DOMAIN conversions

\* C9 as amended: the events of a Weekdays rule are in the ascending order of
\* the dates the rule expands to, each at the date one lookup gives it, so their
\* dates ascend when the override table remaps no occurrence of the rule.
C9_AscendingUnlessRemapped ==
    status = "ok" =>
        \A i \in 1..Len(entries) :
            IsWeekdays(i) =>
                /\ Len(EventsOf(i)) = Len(Expanded(i))
                /\ \A k \in 1..(Len(Expanded(i)) - 1) :
                      DateLess(Expanded(i)[k], Expanded(i)[k + 1])
                /\ \A k \in 1..Len(Expanded(i)) :
                      /\ EventsOf(i)[k].date.month = LookupOnce(Expanded(i)[k]).month
                      /\ EventsOf(i)[k].date.day = LookupOnce(Expanded(i)[k]).day
                /\ NotRemapped(i) =>
                      \A k \in 1..(Len(EventsOf(i)) - 1) :
                          DateLess(EventsOf(i)[k].date, EventsOf(i)[k + 1].date)

\* a Weekdays rule gave its events under an override table that has entries
\* and remaps none of its occurrences
C9_Witness ==
    /\ status = "ok" /\ conversions # EmptyMap
    /\ \E i \in 1..Len(entries) :
          IsWeekdays(i) /\ Len(EventsOf(i)) >= 4 /\ NotRemapped(i)

\* the index of the marker row, past the input if there is none
Markers ==
    {j \in (EntriesEnd + 1)..Len(input) :
        Len(input[j]) >= 2 /\ input[j][1] = MarkerFirst /\ input[j][2] = MarkerSecond}
MarkerAt == IF Markers = {} THEN Len(input) + 1 ELSE Min(Markers)

\* row j has a source cell and a target cell
ConvRow(j) == Len(input[j]) >= 2 /\ input[j][1] # <<>> /\ input[j][2] # <<>>
\* the rows of the conversions section read so far that insert an entry
ConvRowsRead == {j \in (MarkerAt + 1)..pos : ConvRow(j)}
Source(j) == ConversionOf(input[j]).val.from
Target(j) == ConversionOf(input[j]).val.to

\* a cell "d/m" of two numbers
IsNumber(s) == s # <<>> /\ \A i \in 1..Len(s) : IsDigit(s[i])
IsDayMonth(cell) ==
    Len(Split(cell)) >= 2 /\ IsNumber(Split(cell)[1]) /\ IsNumber(Split(cell)[2])

\* C10: the override table has one entry per source key of the conversions
\* rows read, its value the target of the last row with that source, and a
\* row of two "d/m" cells raises no error, whether its source is new or not.
C10_LastWins ==
    /\ (status # "failed"
        /\ pc \in {"parse_conversions", "fill_calendar", "write_output", "exit"}) =>
          /\ DOMAIN conversions = {Source(j) : j \in ConvRowsRead}
          /\ \A j \in ConvRowsRead :
                conversions[Source(j)] =
                    Target(Max({i \in ConvRowsRead : Source(i) = Source(j)}))
    /\ (status = "failed" /\ pc = "parse_conversions") =>
          ~(ConvRow(pos) /\ IsDayMonth(input[pos][1]) /\ IsDayMonth(input[pos][2]))

\* two rows with the same source and different targets were read without error
C10_Witness ==
    /\ status # "failed" /\ pc = "fill_calendar"
    /\ \E i, j \in ConvRowsRead :
          i < j /\ Source(i) = Source(j) /\ Target(i) # Target(j)
    /\ Cardinality(DOMAIN conversions) = 1

\* the names row has been parsed without an error
NamesParsed == pc \notin {"parse_year", "parse_trash_names"}

\* the non-empty cells of the names row after its first cell, in order
NameCells == SelectSeq(Tail(input[2]), LAMBDA c : c # <<>>)

\* C11: the names table maps category k to the k-th non-empty cell after the
\* first cell of the names row, for k = 0, 1, ... without gaps, and a names
\* row is parsed only when it has at most seven such cells.
C11_NamesInOrder ==
    NamesParsed =>
        /\ Len(NameCells) <= Len(TrashTypes)
        /\ DOMAIN names = {TrashTypes[k] : k \in 1..Len(NameCells)}
        /\ \A k \in 1..Len(NameCells) : names[TrashTypes[k]] = NameCells[k]

\* a names row with empty cells before and between two names gave the
\* categories 0 and 1 their names
C11_Witness ==
    /\ NamesParsed
    /\ Len(input[2]) = 5 /\ input[2][1] # <<>> /\ input[2][2] = <<>> /\ input[2][4] = <<>>
    /\ DOMAIN names = {TrashTypes[1], TrashTypes[2]}
    /\ names[TrashTypes[1]] = input[2][3] /\ names[TrashTypes[2]] = input[2][5]

\* the identifier 0..6 of a trash type
CategoryId(ty) == (CHOOSE k \in 1..Len(TrashTypes) : TrashTypes[k] = ty) - 1

\* the positions, counted from 1, of the parseable cells among cells
ParseablePositions(cells) ==
    SelectSeq([i \in 1..Len(cells) |-> i], LAMBDA i : Parseable(cells[i]))

\* the step adds one rule per parseable cell of the row read: its month is the
\* month cell, its category the 0-based position divided by three, its date a
\* Day for a number and a Weekdays for a weekday token
OneRulePerParseableCell ==
    LET record == input[pos + 1]
        cells == Tail(record)
        idx == ParseablePositions(cells)
    IN  /\ Len(entries') = Len(entries) + Len(idx)
        /\ SubSeq(entries', 1, Len(entries)) = entries
        /\ \A k \in 1..Len(idx) :
              LET rule == entries'[Len(entries) + k]
                  cell == cells[idx[k]]
              IN  /\ rule.month_number = ParseU32(record[1]).val
                  /\ CategoryId(rule.ty) = (idx[k] - 1) \div 3
                  /\ IsOk(ParseU32(cell)) =>
                        rule.day = [tag |-> "Day", day |-> ParseU32(cell).val]
                  /\ ~IsOk(ParseU32(cell)) =>
                        /\ rule.day.tag = "Weekdays"
                        /\ cell \in WeekdayNames[rule.day.weekday]

\* C12 as claimed: every entries row gives one rule per parseable cell, at
\* whatever position the cell is.
C12_RulePerCell ==
    [][AtEntriesRow => OneRulePerParseableCell]_vars

\* C12 as amended: an entries row with at most 21 cells after the month cell
\* gives one rule per parseable cell; a row with more cells gives no rule,
\* parse_trash_entries returns the error of TrashType::from_index.
C12_RulePerCellInRange ==
    [][AtEntriesRow =>
          IF Len(Tail(input[pos + 1])) <= Positions
          THEN OneRulePerParseableCell
          ELSE entries' = entries /\ status' = "failed"]_vars

\* a row with a weekday at position 3 gave a Weekdays rule of category 1
C12_Witness ==
    /\ status = "running" /\ pc = "parse_trash_entries" /\ pos = 3
    /\ Len(input[3]) = 5 /\ Parseable(input[3][5])
    /\ Len(entries) = 1
    /\ entries[1].ty = TrashTypes[2] /\ entries[1].day.tag = "Weekdays"
    /\ entries[1].month_number = 4

\* the section state of the parser at a place of main
SectionState(p) ==
    CASE p = "parse_year" -> "AwaitYear"
      [] p = "parse_trash_names" -> "AwaitNames"
      [] p = "parse_trash_entries" -> "AwaitEntries"
      [] p = "parse_conversions_marker" -> "AwaitOverrideMarker"
      [] p = "parse_conversions" -> "AwaitOverrides"
      [] OTHER -> "Done"

SectionOrder ==
    <<"AwaitYear", "AwaitNames", "AwaitEntries", "AwaitOverrideMarker",
      "AwaitOverrides", "Done">>
Rank(p) == CHOOSE k \in 1..Len(SectionOrder) : SectionOrder[k] = SectionState(p)

\* the index of the row that ends the conversions section, past the input if none
OverrideEnders == {j \in (MarkerAt + 1)..Len(input) : ~ConvRow(j)}
OverridesEnd == IF OverrideEnders = {} THEN Len(input) + 1 ELSE Min(OverrideEnders)

\* the section state that is to read row j of the input, "none" for a row
\* after the one that ends the conversions section
ReaderOf(j) ==
    IF j = 1 THEN "AwaitYear"
    ELSE IF j = 2 THEN "AwaitNames"
    ELSE IF j <= EntriesEnd THEN "AwaitEntries"
    ELSE IF j <= MarkerAt THEN "AwaitOverrideMarker"
    ELSE IF j <= OverridesEnd THEN "AwaitOverrides"
    ELSE "none"

\* C14: the section state stays or moves to the next one, the rows are read
\* one after the other and each by the state of its section: row 1 by
\* AwaitYear, which sets the year from it, row 2 by AwaitNames, the row that
\* ends the entries by AwaitEntries and the marker row by AwaitOverrideMarker,
\* and no row after the one that ends the conversions section is read.
C14_ForwardOnly ==
    [][/\ Rank(pc') \in {Rank(pc), Rank(pc) + 1}
       /\ pos' \in {pos, pos + 1}
       /\ pos' = pos + 1 => SectionState(pc) = ReaderOf(pos + 1)
       /\ Rank(pc') = Rank(pc) + 1 /\ SectionState(pc) = "AwaitYear" =>
              pos' = 1 /\ year' = ParseI32(input[1][2]).val
       /\ Rank(pc') = Rank(pc) + 1 /\ SectionState(pc) = "AwaitNames" =>
              pos' = 2 /\ DOMAIN names' = {TrashTypes[k] : k \in 1..Len(NameCells)}
       /\ Rank(pc') = Rank(pc) + 1 /\ SectionState(pc) = "AwaitEntries" =>
              pos' = IF EntriesEnd <= Len(input) THEN EntriesEnd ELSE Len(input)
       /\ Rank(pc') = Rank(pc) + 1 /\ SectionState(pc) = "AwaitOverrideMarker" =>
              pos' = IF MarkerAt <= Len(input) THEN MarkerAt ELSE Len(input)
       /\ SectionState(pc) = "Done" => pos' = pos]_vars

\* a run ended well with an override row left unread after the row that ended
\* the conversions section: the override table is empty
C14_Witness ==
    /\ status = "ok" /\ calendar # <<>>
    /\ MarkerAt < pos /\ pos < Len(input)
    /\ ConvRow(pos + 1)
    /\ conversions = EmptyMap

\* the scan for the marker is about to read a row
AtGapRow == status = "running" /\ pc = "parse_conversions_marker" /\ pos < Len(input)

\* the first two cells of the row are the marker tokens
IsMarkerRow(record) ==
    Len(record) >= 2 /\ record[1] = MarkerFirst /\ record[2] = MarkerSecond

\* the row read is dropped: the scan goes on and nothing else changes
RowDiscarded ==
    /\ status' = "running" /\ pc' = pc /\ pos' = pos + 1
    /\ UNCHANGED <<year, names, entries, conversions, calendar, output>>

\* the row read is the marker: the conversions section starts after it
SectionStarts == status' = "running" /\ pc' = "parse_conversions" /\ pos' = pos + 1

\* C15 as claimed: between the entries and the marker a row of whatever content
\* and number of cells is dropped without an error, and the conversions section
\* starts after the first row whose first two cells are the marker tokens.
C15_GapRowsDiscarded ==
    [][AtGapRow =>
          IF IsMarkerRow(input[pos + 1]) THEN SectionStarts ELSE RowDiscarded]_vars

\* C15 as amended: the same for the rows of at least two cells; a row of one
\* cell makes the run panic with "Weird row".
C15_GapRowsOfTwoCellsDiscarded ==
    [][AtGapRow =>
          IF IsMarkerRow(input[pos + 1]) THEN SectionStarts
          ELSE IF Len(input[pos + 1]) >= 2 THEN RowDiscarded
          ELSE status' = "failed" /\ failure' = "Weird row" /\ output' = None]_vars

\* a row that is not the marker was dropped and the marker after it found
C15_Witness ==
    /\ status = "running" /\ pc = "parse_conversions" /\ pos = MarkerAt
    /\ MarkerAt > EntriesEnd + 1
    /\ entries # <<>> /\ conversions = EmptyMap

\* the day and the month a cell "day/month" names
DayOf(cell) == ParseDigits(Split(cell)[1], 0)
MonthOf(cell) == ParseDigits(Split(cell)[2], 0)

\* the panic of process_date at a converted date that is no date
ConversionPanic == "Shouldn't happen if your conversions are okay"

\* an expanded date of entry i is the key of an override whose target is no
\* date of the year
HitsInvalidTarget(i) ==
    \E k \in 1..Len(Expanded(i)) :
        ~ValidDate(year, LookupOnce(Expanded(i)[k]).month, LookupOnce(Expanded(i)[k]).day)

\* parse_conversions is about to read a row of two "d/m" cells whose target is
\* no date of the year
AtInvalidTargetRow ==
    /\ status = "running" /\ pc = "parse_conversions" /\ pos < Len(input)
    /\ ConvRow(pos + 1)
    /\ IsDayMonth(input[pos + 1][1]) /\ IsDayMonth(input[pos + 1][2])
    /\ ~ValidDate(year, MonthOf(input[pos + 1][2]), DayOf(input[pos + 1][2]))

\* C16: an override row whose target is no date of the year is inserted like
\* any other; the run panics over it in fill_calendar, at a rule one of whose
\* expanded dates is looked up to such a target, and nowhere else; a rule that
\* meets no such target gives one event per expanded date.
C16_InvalidTargetAtEmit ==
    [][/\ AtInvalidTargetRow =>
              /\ status' = "running" /\ pc' = pc
              /\ DOMAIN conversions' = DOMAIN conversions \cup {Source(pos + 1)}
              /\ ~ValidDate(year, conversions'[Source(pos + 1)].month,
                            conversions'[Source(pos + 1)].day)
       /\ (failure' = ConversionPanic /\ failure # ConversionPanic) =>
              pc = "fill_calendar" /\ HitsInvalidTarget(next_entry)
       /\ (status = "running" /\ pc = "fill_calendar" /\ next_entry <= Len(entries)) =>
              IF HitsInvalidTarget(next_entry)
              THEN status' = "failed" /\ output' = None
              ELSE (IsOk(ExpandEntry(entries[next_entry], year))
                    /\ entries[next_entry].ty \in DOMAIN names) =>
                      /\ status' = "running"
                      /\ Len(calendar') = Len(calendar) + Len(Expanded(next_entry))]_vars

\* a run ended well and wrote events although the override table holds a
\* target that is no date of the year
C16_Witness ==
    /\ status = "ok" /\ calendar # <<>>
    /\ \E key \in DOMAIN conversions :
          ~ValidDate(year, conversions[key].month, conversions[key].day)

\* the conversions rows read so far whose source cell "a/b" names day a of
\* month b
RowsFor(month, day) ==
    {j \in ConvRowsRead : MonthOf(input[j][1]) = month /\ DayOf(input[j][1]) = day}

\* C17: a row "a/b", "c/d" is stored under the key (month b, day a) with the
\* value (month d, day c), the last row of a key giving its value; an event
\* whose expanded date is day a of month b is on day c of month d, and an
\* event whose expanded date is the source of no row is on its expanded date.
C17_DayFirst ==
    /\ (status # "failed"
        /\ pc \in {"parse_conversions", "fill_calendar", "write_output", "exit"}) =>
          \A j \in ConvRowsRead :
              LET key == [month |-> MonthOf(input[j][1]), day |-> DayOf(input[j][1])]
                  last == Max(RowsFor(key.month, key.day))
              IN  /\ key \in DOMAIN conversions
                  /\ conversions[key] = [month |-> MonthOf(input[last][2]),
                                         day |-> DayOf(input[last][2])]
    /\ FillReached =>
          \A n \in 1..Len(calendar) :
              LET e == ExpandedUpTo(next_entry - 1)[n]
                  rows == RowsFor(e.month, e.day)
              IN  IF rows = {}
                  THEN calendar[n].date.month = e.month /\ calendar[n].date.day = e.day
                  ELSE /\ calendar[n].date.month = MonthOf(input[Max(rows)][2])
                       /\ calendar[n].date.day = DayOf(input[Max(rows)][2])

\* with the one override "12/4", "13/4" the rule on 12 April gave an event on
\* 13 April and the rule on 4 December an event on 4 December
C17_Witness ==
    /\ status = "ok"
    /\ DOMAIN conversions = {[month |-> 4, day |-> 12]}
    /\ conversions[[month |-> 4, day |-> 12]] = [month |-> 4, day |-> 13]
    /\ Len(calendar) = 2
    /\ calendar[1].date.month = 4 /\ calendar[1].date.day = 13
    /\ calendar[2].date.month = 12 /\ calendar[2].date.day = 4

\* the error of TrashType::from_index
NoSuchType == "Shouldn't happen"

\* the entries rows read so far that have a month and a cell at a position
\* past the last category
LongRowsRead ==
    {j \in 3..Min({pos, EntriesEnd - 1}) :
        /\ IsOk(ParseU32(input[j][1]))
        /\ Len(Tail(input[j])) > Positions}

\* C18: in every state the keys of the names table and the categories of the
\* rules are trash types; a names row with more non-empty name cells than
\* there are trash types, once read, has ended the run in parse_trash_names
\* with the error of from_index and an empty table, and so has an entries row
\* with a cell past the last category in parse_trash_entries, with no rule of
\* that row.
C18_CategoriesInRange ==
    /\ DOMAIN names \subseteq TrashType
    /\ \A i \in 1..Len(entries) : entries[i].ty \in TrashType
    /\ (pos >= 2 /\ Len(NameCells) > Len(TrashTypes)) =>
          /\ status = "failed" /\ failure = NoSuchType
          /\ pc = "parse_trash_names" /\ names = EmptyMap
    /\ \A j \in LongRowsRead :
          /\ status = "failed" /\ failure = NoSuchType
          /\ pc = "parse_trash_entries" /\ pos = j /\ entries = RulesUpTo(j - 1)

\* an entries row with an empty cell at position 21 after the month ended the
\* run with the error of from_index
C18_Witness ==
    /\ status = "failed" /\ failure = NoSuchType /\ pc = "parse_trash_entries"
    /\ Len(input[pos]) = Positions + 2
    /\ input[pos][Positions + 2] = <<>>

\* the rows end before a marker row, and every row after the entries section
\* has two cells or more
NoMarker ==
    /\ Markers = {}
    /\ \A j \in (EntriesEnd + 1)..Len(input) : Len(input[j]) >= 2

\* C19: when the rows end before a marker row and every row scanned for the
\* marker has two cells or more, the override table stays empty, neither loop
\* of parse_conversions fails, and every event is on its expanded date.
C19_NoMarkerNoOverrides ==
    NoMarker =>
        /\ conversions = EmptyMap
        /\ ~(status = "failed" /\ pc \in {"parse_conversions_marker", "parse_conversions"})
        /\ FillReached =>
              /\ Len(calendar) = Len(ExpandedUpTo(next_entry - 1))
              /\ \A n \in 1..Len(calendar) :
                    calendar[n].date =
                        [year |-> year, month |-> ExpandedUpTo(next_entry - 1)[n].month,
                         day |-> ExpandedUpTo(next_entry - 1)[n].day]

\* a run without a marker row, with a row scanned for it, ended well with events
C19_Witness ==
    /\ status = "ok" /\ calendar # <<>>
    /\ NoMarker /\ EntriesEnd < Len(input)

\* a run whose rows end inside the entries section ended well with events
C19_WitnessNoTerminator ==
    /\ status = "ok" /\ calendar # <<>>
    /\ NoMarker /\ EntriesEnd > Len(input)

\* the expanded date of event k of entry i is the source of an override
Moved(i, k) ==
    [month |-> Expanded(i)[k].month, day |-> Expanded(i)[k].day] \in DOMAIN conversions

\* C20: the calendar holds one event per expanded date of the rules processed,
\* moved by an override or not; the summary and the description of an event
\* are the name of the trash type of its rule and its year is the year of the
\* input.
C20_OnlyDateChanges ==
    FillReached =>
        /\ Len(calendar) = Len(ExpandedUpTo(next_entry - 1))
        /\ \A i \in 1..(next_entry - 1) :
              /\ Len(EventsOf(i)) = Len(Expanded(i))
              /\ \A k \in 1..Len(Expanded(i)) :
                    /\ entries[i].ty \in DOMAIN names
                    /\ EventsOf(i)[k].summary = names[entries[i].ty]
                    /\ EventsOf(i)[k].description = names[entries[i].ty]
                    /\ EventsOf(i)[k].date.year = year

\* a rule with one event moved by an override and another left on its
\* expanded date, both with the name of the rule's trash type
C20_Witness ==
    /\ status = "ok"
    /\ \E i \in 1..Len(entries) :
          \E k, l \in 1..Len(Expanded(i)) :
              /\ Moved(i, k) /\ ~Moved(i, l)
              /\ EventsOf(i)[k].date.day # Expanded(i)[k].day
              /\ EventsOf(i)[l].date.day = Expanded(i)[l].day
              /\ EventsOf(i)[k].description = names[entries[i].ty]

====
